---- MODULE Spec2Model ----
(***************************************************************************)
(* A model of isatools/utils.py: the ISA-Tab curation utilities.           *)
(*                                                                         *)
(* Python strings are modelled as sequences of one-character strings, so   *)
(* that startswith / endswith / in / replace / rindex / split / slicing    *)
(* are computed the way the code computes them.  Python lists are TLA+     *)
(* sequences, addressed with Python's 0-based indices through PyGet,       *)
(* PyInsert and PyDel.                                                     *)
(***************************************************************************)
EXTENDS Integers, Sequences, FiniteSets, TLC

VARIABLES
    \* ---- IsaTabFixer (replace_factor_with_...) ----
    table,        \* the table file at self.path: [header, rows, quoted]
    fix_table,    \* the table file at self.path + '.fix': [written, header, rows]
    study,        \* investigation.studies[-1]: [protocols, factors, params]
    inv_fix,      \* i_Investigation.txt.fix: [written, study]
    call,         \* the call made: [factor_name, protocol_ref, before]
    \* ---- process pooling ----
    G,            \* an experimental graph: [nodes, edges]
    isa,          \* the loaded investigation: studies with graphs and assays
    report,       \* the list a detect_..._pooling call returned
    \* ---- create_isatab_archive ----
    archive_isa,  \* the investigation: [name, studies]
    files,        \* the names of the files existing in the investigation's directory
    filter_by_measurement, \* the argument, None or a measurement type term
    result,       \* what the call returned: [none, names]
    zip_file,     \* the archive at target_filename: [written, names]
    \* ---- IsaTabAnalyzer.generate_study_design_report ----
    s_df,         \* the study table: [columns, rows]
    a_df,         \* the assay table: [columns, rows]
    assay_report, \* the assay's entry of the report
    \* ---- batch_fix_isatabs ----
    settings,     \* the argument: one [path, value] per key, in key order
    dirs,         \* the directory of each path's table file
    fix_calls,    \* the fix_factor calls made, in order
    \* ---- factor_query_isatab ----
    isatab,       \* the table the DataFrame was read from: [columns, rows]
    df,           \* the DataFrame passed to the calls: [columns, rows]
    q,            \* the query string of the last call
    query_result, \* the rows the last call returned, or NoResult
    shorter_result, \* the rows the call before it returned, or NoResult
    \* ---- contains ----
    small_list,   \* the first argument
    big_list,     \* the second argument
    returned,     \* the value the call returned
    \* ---- pyvar ----
    input_string, \* the argument
    variable,     \* the string the call returned
    \* ---- IsaTabFixer.remove_unused_protocols ----
    investigation, \* what isatab.load gave: the studies
    dumped,       \* the investigation file written by isatab.dump: [written, studies]
    \* ---- check_loadable ----
    listing,      \* os.listdir(tab_dir_root): [name, loads] per entry
    printed,      \* the lines printed, in order
    op,           \* the function that was called, "none" before the call
    raised,       \* the exception the call raised, or "none"
    pc            \* "ready" before the call, "done" after it

fixerVars == <<table, fix_table, study, inv_fix, call>>

poolingVars == <<G, isa, report>>

archiveVars == <<archive_isa, files, filter_by_measurement, result, zip_file>>

reportVars == <<s_df, a_df, assay_report>>

batchVars == <<settings, dirs, fix_calls>>

queryVars == <<isatab, df, q, query_result, shorter_result>>

containsVars == <<small_list, big_list, returned>>

pyvarVars == <<input_string, variable>>

protocolsVars == <<investigation, dumped>>

loadableVars == <<listing, printed>>

vars == <<fixerVars, poolingVars, archiveVars, reportVars, batchVars, queryVars,
          containsVars, pyvarVars, protocolsVars, loadableVars, op, raised, pc>>

(***************************************************************************)
(* Bounds of the model.                                                    *)
(***************************************************************************)
MaxCols == 5

(***************************************************************************)
(* String literals of the source.                                          *)
(***************************************************************************)
SourceName == <<"S","o","u","r","c","e"," ","N","a","m","e">>
SampleName == <<"S","a","m","p","l","e"," ","N","a","m","e">>
SampleNameDot == <<"S","a","m","p","l","e"," ","N","a","m","e",".">>
ProtocolREF == <<"P","r","o","t","o","c","o","l"," ","R","E","F">>
TermSourceREF == <<"T","e","r","m"," ","S","o","u","r","c","e"," ","R","E","F">>
TermAccessionNumber == <<"T","e","r","m"," ","A","c","c","e","s","s","i","o","n"," ","N","u","m","b","e","r">>
TermAccession == <<"T","e","r","m"," ","A","c","c","e","s","s","i","o","n">>
Unit == <<"U","n","i","t">>
FactorValue == <<"F","a","c","t","o","r"," ","V","a","l","u","e">>
FactorValueOpen == <<"F","a","c","t","o","r"," ","V","a","l","u","e","[">>
Characteristics == <<"C","h","a","r","a","c","t","e","r","i","s","t","i","c","s">>
CharacteristicsOpen == <<"C","h","a","r","a","c","t","e","r","i","s","t","i","c","s","[">>
ParameterValue == <<"P","a","r","a","m","e","t","e","r"," ","V","a","l","u","e">>
ParameterValueOpen == <<"P","a","r","a","m","e","t","e","r"," ","V","a","l","u","e","[">>
MaterialType == <<"M","a","t","e","r","i","a","l"," ","T","y","p","e">>
material_type == <<"m","a","t","e","r","i","a","l"," ","t","y","p","e">>
Date == <<"D","a","t","e">>
Performer == <<"P","e","r","f","o","r","m","e","r">>

(***************************************************************************)
(* Python str operations on character sequences.                           *)
(***************************************************************************)
\* s.startswith(p)
StartsWith(s, p) ==
    Len(s) >= Len(p) /\ SubSeq(s, 1, Len(p)) = p

\* s.endswith(p)
EndsWith(s, p) ==
    Len(s) >= Len(p) /\ SubSeq(s, Len(s) - Len(p) + 1, Len(s)) = p

\* p in s  (substring test)
StrIn(p, s) ==
    \E i \in 1..(Len(s) - Len(p) + 1) : SubSeq(s, i, i + Len(p) - 1) = p

\* s.rindex(c) as a 0-based index; -1 stands for the ValueError
RIndex(s, c) ==
    IF \E i \in 1..Len(s) : s[i] = c
    THEN (CHOOSE i \in 1..Len(s) : s[i] = c /\ \A j \in (i+1)..Len(s) : s[j] # c) - 1
    ELSE -1

\* s[i:]  (0-based)
StrFrom(s, i) == SubSeq(s, i + 1, Len(s))

\* ch.lower() for the letters the model's labels use
LowerCh(c) ==
    CASE c = "A" -> "a" [] c = "C" -> "c" [] c = "D" -> "d" [] c = "E" -> "e"
      [] c = "F" -> "f" [] c = "M" -> "m" [] c = "N" -> "n" [] c = "P" -> "p"
      [] c = "R" -> "r" [] c = "S" -> "s" [] c = "T" -> "t" [] c = "U" -> "u"
      [] c = "V" -> "v" [] OTHER -> c

\* s.lower()
Lower(s) == [i \in 1..Len(s) |-> LowerCh(s[i])]

\* s.replace(old, new): every non-overlapping occurrence, left to right
RECURSIVE StrReplace(_, _, _)
StrReplace(s, old, new) ==
    IF Len(s) < Len(old) \/ Len(old) = 0 THEN s
    ELSE IF SubSeq(s, 1, Len(old)) = old
         THEN new \o StrReplace(SubSeq(s, Len(old) + 1, Len(s)), old, new)
         ELSE <<s[1]>> \o StrReplace(Tail(s), old, new)

(***************************************************************************)
(* Python list operations with 0-based indices.                            *)
(***************************************************************************)
PyGet(l, i) == l[i + 1]

\* l.insert(i, x): past the end it appends
PyInsert(l, i, x) ==
    IF i >= Len(l) THEN Append(l, x)
    ELSE SubSeq(l, 1, i) \o <<x>> \o SubSeq(l, i + 1, Len(l))

\* del l[i]
PyDel(l, i) == SubSeq(l, 1, i) \o SubSeq(l, i + 2, Len(l))

\* l.index(x) as a 0-based index; -1 stands for the ValueError
PyIndex(l, x) ==
    IF \E i \in 1..Len(l) : l[i] = x
    THEN (CHOOSE i \in 1..Len(l) : l[i] = x /\ \A j \in 1..(i-1) : l[j] # x) - 1
    ELSE -1

\* l[i] = x
PySet(l, i, x) == [l EXCEPT ![i + 1] = x]

(***************************************************************************)
(* IsaTabFixer.clean_isatab_field_names                                    *)
(***************************************************************************)
\* field_name[field_name.rindex('.') + 1:], unchanged on ValueError
AfterLastDot(field_name) ==
    IF RIndex(field_name, ".") = -1 THEN field_name
    ELSE StrFrom(field_name, RIndex(field_name, ".") + 1)

\* the if / elif chain applied to one field name
CleanFieldName(field_name) ==
    IF StartsWith(field_name, TermSourceREF) THEN TermSourceREF
    ELSE IF StartsWith(field_name, TermAccessionNumber) THEN TermAccessionNumber
    ELSE IF StartsWith(field_name, Unit) THEN Unit
    ELSE IF StrIn(CharacteristicsOpen, field_name)
         THEN IF StrIn(material_type, Lower(field_name)) THEN MaterialType
              ELSE AfterLastDot(field_name)
    ELSE IF StrIn(FactorValueOpen, field_name) THEN AfterLastDot(field_name)
    ELSE IF StrIn(ParameterValueOpen, field_name) THEN AfterLastDot(field_name)
    ELSE IF EndsWith(field_name, Date) THEN Date
    ELSE IF EndsWith(field_name, Performer) THEN Performer
    ELSE IF StrIn(ProtocolREF, field_name) THEN ProtocolREF
    ELSE IF StartsWith(field_name, SampleNameDot) THEN SampleName
    ELSE field_name

clean_isatab_field_names(field_names) ==
    [i \in 1..Len(field_names) |-> CleanFieldName(field_names[i])]

(***************************************************************************)
(* The column move shared, line for line, by                               *)
(* replace_factor_with_source_characteristic (anchor = source_name_index)  *)
(* and replace_factor_with_protocol_parameter_value (anchor =              *)
(* protocol_ref_index).  A read past the end of the list is an IndexError. *)
(***************************************************************************)
\* which branch of the if / elif chain is taken; Python evaluates the
\* conjuncts left to right and stops at the first false one
MoveBranch(field_names, factor_index) ==
    LET n == Len(field_names)
        f == factor_index
        unitOnly ==
            IF StrIn(Unit, PyGet(field_names, f + 1)) THEN "unit" ELSE "plain"
        unitTerm ==
            IF ~ StrIn(Unit, PyGet(field_names, f + 1)) THEN unitOnly
            ELSE IF f + 2 >= n THEN "IndexError"
            ELSE IF ~ StrIn(TermSourceREF, PyGet(field_names, f + 2)) THEN unitOnly
            ELSE IF f + 3 >= n THEN "IndexError"
            ELSE IF StrIn(TermAccession, PyGet(field_names, f + 3)) THEN "unit_term"
            ELSE unitOnly
    IN  IF ~ (f < n) THEN "plain"
        ELSE IF f + 1 >= n THEN "IndexError"
        ELSE IF ~ StrIn(TermSourceREF, PyGet(field_names, f + 1)) THEN unitTerm
        ELSE IF f + 2 >= n THEN "IndexError"
        ELSE IF StrIn(TermAccession, PyGet(field_names, f + 2)) THEN "term"
        ELSE unitTerm

\* Factor Value + Term Source REF + Term Accession Number
MoveTerm(field_names, f, a) ==
    LET l1 == PyInsert(field_names, a + 1, PyGet(field_names, f))
        l2 == PyInsert(l1, a + 2, PyGet(l1, f + 1 + 1))
        l3 == PyInsert(l2, a + 3, PyGet(l2, f + 2 + 2))
        l4 == PyDel(l3, f + 3)
        l5 == PyDel(l4, f + 1 + 2)
    IN  PyDel(l5, f + 2 + 1)

\* Factor Value + Unit + Term Source REF + Term Accession Number
MoveUnitTerm(field_names, f, a) ==
    LET l1 == PyInsert(field_names, a + 1, PyGet(field_names, f))
        l2 == PyInsert(l1, a + 2, PyGet(l1, f + 1 + 1))
        l3 == PyInsert(l2, a + 3, PyGet(l2, f + 2 + 2))
        l4 == PyInsert(l3, a + 4, PyGet(l3, f + 3 + 3))
        l5 == PyDel(l4, f + 4)
        l6 == PyDel(l5, f + 1 + 3)
        l7 == PyDel(l6, f + 2 + 2)
    IN  PyDel(l7, f + 3 + 1)

\* Factor Value + Unit
MoveUnit(field_names, f, a) ==
    LET l1 == PyInsert(field_names, a + 1, PyGet(field_names, f))
        l2 == PyInsert(l1, a + 2, PyGet(l1, f + 1 + 1))
        l3 == PyDel(l2, f + 2)
    IN  PyDel(l3, f + 1 + 1)

\* only the Factor Value column
MovePlain(field_names, f, a) ==
    LET l1 == PyInsert(field_names, a + 1, PyGet(field_names, f))
    IN  PyDel(l1, f)

MoveColumns(field_names, f, a) ==
    LET b == MoveBranch(field_names, f)
    IN  CASE b = "IndexError" -> [exc |-> "IndexError", names |-> field_names]
          [] b = "term"      -> [exc |-> "none", names |-> MoveTerm(field_names, f, a)]
          [] b = "unit_term" -> [exc |-> "none", names |-> MoveUnitTerm(field_names, f, a)]
          [] b = "unit"      -> [exc |-> "none", names |-> MoveUnit(field_names, f, a)]
          [] OTHER           -> [exc |-> "none", names |-> MovePlain(field_names, f, a)]

\* 'Factor Value[{}]'.format(factor_name)
FactorLabel(factor_name) == FactorValueOpen \o factor_name \o <<"]">>

\* the rename of the column at anchor + 1 and the final clean
\* (field_names_modified[anchor + 1] = ....replace('Factor Value', new))
RenameMoved(columns, a, new) ==
    IF a + 1 >= Len(columns) THEN [exc |-> "IndexError", names |-> columns]
    ELSE [exc |-> "none",
          names |-> clean_isatab_field_names(
                        PySet(columns, a + 1,
                              StrReplace(PyGet(columns, a + 1), FactorValue, new)))]

(***************************************************************************)
(* The table file and how the fixer reads it.                              *)
(***************************************************************************)
DigitChar(k) ==
    CASE k = 0 -> "0" [] k = 1 -> "1" [] k = 2 -> "2" [] k = 3 -> "3"
      [] k = 4 -> "4" [] k = 5 -> "5" [] k = 6 -> "6" [] k = 7 -> "7"
      [] k = 8 -> "8" [] OTHER -> "9"

\* isatab.read_tfile(self.path).columns: pandas names the k-th repetition of
\* a header 'X' as 'X.k' (the suffixes clean_isatab_field_names drops)
read_tfile_columns(header) ==
    [i \in 1..Len(header) |->
        LET k == Cardinality({j \in 1..(i-1) : header[j] = header[i]})
        IN  IF k = 0 THEN header[i] ELSE header[i] \o <<".", DigitChar(k)>>]

\* line1.split('\t') of the first data line, newline included
Line1Split(t) ==
    LET r == t.rows[1]
    IN  [i \in 1..Len(r) |->
            LET c == IF t.quoted THEN <<"\"">> \o r[i] \o <<"\"">> ELSE r[i]
            IN  IF i = Len(r) THEN c \o <<"\n">> ELSE c]

\* lambda x: x[1:-1] if x[0] == '"' and x[-1] == '"' else x
Unquote(x) ==
    IF x[1] = "\"" /\ x[Len(x)] = "\"" THEN SubSeq(x, 2, Len(x) - 1) ELSE x

\* list(map(unquote, line1.split('\t'))).index(protocol_ref);
\* x[0] of an empty cell is an IndexError, a missing value a ValueError
ProtocolRefIndex(t, protocol_ref) ==
    LET cells == Line1Split(t)
    IN  IF \E i \in 1..Len(cells) : cells[i] = <<>>
        THEN [exc |-> "IndexError", index |-> -1]
        ELSE LET k == PyIndex([i \in 1..Len(cells) |-> Unquote(cells[i])],
                              protocol_ref)
             IN  IF k = -1 THEN [exc |-> "ValueError", index |-> -1]
                 ELSE [exc |-> "none", index |-> k]

(***************************************************************************)
(* replace_factor_with_source_characteristic: the header it computes.      *)
(***************************************************************************)
SourceCharacteristicColumns(header, factor_name) ==
    LET field_names == clean_isatab_field_names(read_tfile_columns(header))
        factor_index == PyIndex(field_names, FactorLabel(factor_name))
        source_name_index == PyIndex(field_names, SourceName)
    IN  IF factor_index = -1 \/ source_name_index = -1
        THEN [exc |-> "ValueError", names |-> header]
        ELSE LET moved == MoveColumns(field_names, factor_index, source_name_index)
             IN  IF moved.exc # "none" THEN [exc |-> moved.exc, names |-> header]
                 ELSE RenameMoved(clean_isatab_field_names(moved.names),
                                  source_name_index, Characteristics)

(***************************************************************************)
(* replace_factor_with_protocol_parameter_value: the header it computes.   *)
(***************************************************************************)
ParameterValueColumns(t, factor_name, protocol_ref) ==
    LET field_names == clean_isatab_field_names(read_tfile_columns(t.header))
        factor_index == PyIndex(field_names, FactorLabel(factor_name))
        pri == ProtocolRefIndex(t, protocol_ref)
    IN  IF factor_index = -1
        THEN [exc |-> "ValueError", names |-> t.header]
        ELSE IF pri.exc # "none" THEN [exc |-> pri.exc, names |-> t.header]
        ELSE LET moved == MoveColumns(field_names, factor_index, pri.index)
             IN  IF moved.exc # "none" THEN [exc |-> moved.exc, names |-> t.header]
                 ELSE RenameMoved(clean_isatab_field_names(moved.names),
                                  pri.index, ParameterValue)

(***************************************************************************)
(* IsaTabFixer: the calls.                                                 *)
(***************************************************************************)
\* protocol_ref=None
None == <<"None">>

DotFix == <<".","f","i","x">>

NoTable == [written |-> FALSE, header |-> <<>>, rows |-> <<>>]

NoInvestigation ==
    [written |-> FALSE,
     study |-> [filename |-> <<>>, protocols |-> {}, factors |-> {}, params |-> {}]]

\* the files of the table's directory that the fixer reads and writes
Directory(t, ft, st, inv) ==
    [table |-> t, fix_table |-> ft, study |-> st, inv_fix |-> inv]

\* the exception raised and the directory left behind
replace_factor_with_source_characteristic(dir, factor_name) ==
    LET r == SourceCharacteristicColumns(dir.table.header, factor_name)
    IN  [raised |-> r.exc,
         dir |-> IF r.exc = "none"
                 THEN [dir EXCEPT !.table = [header |-> r.names,
                                             rows |-> dir.table.rows,
                                             quoted |-> FALSE]]
                 ELSE dir]

replace_factor_with_protocol_parameter_value(dir, factor_name, protocol_ref) ==
    LET r == ParameterValueColumns(dir.table, factor_name, protocol_ref)
        \* study.get_prot(protocol_ref) / study.get_factor(factor_name)
        protocol_found == protocol_ref \in dir.study.protocols
        factor_found == factor_name \in dir.study.factors
        fixed_study ==
            [filename |-> dir.study.filename \o DotFix,
             protocols |-> dir.study.protocols,
             factors |-> dir.study.factors \ {factor_name},
             params |-> dir.study.params \cup {<<protocol_ref, factor_name>>}]
        exc == IF r.exc # "none" THEN r.exc
               ELSE IF ~ protocol_found \/ ~ factor_found
                    THEN "ISAModelAttributeError"
                    ELSE "none"
    IN  [raised |-> exc,
         dir |-> IF exc = "none"
                 THEN [dir EXCEPT
                        !.inv_fix = [written |-> TRUE, study |-> fixed_study],
                        !.fix_table = [written |-> TRUE, header |-> r.names,
                                       rows |-> dir.table.rows]]
                 ELSE dir]

fix_factor(dir, factor_name, protocol_ref) ==
    IF protocol_ref = None
    THEN replace_factor_with_source_characteristic(dir, factor_name)
    ELSE replace_factor_with_protocol_parameter_value(dir, factor_name, protocol_ref)

\* a call of fixer.fix_factor on the table file
FixFactor(factor_name, protocol_ref) ==
    LET r == fix_factor(Directory(table, fix_table, study, inv_fix),
                        factor_name, protocol_ref)
    IN  /\ pc = "ready"
        /\ pc' = "done"
        /\ op' = IF protocol_ref = None
                 THEN "replace_factor_with_source_characteristic"
                 ELSE "replace_factor_with_protocol_parameter_value"
        /\ call' = [factor_name |-> factor_name, protocol_ref |-> protocol_ref,
                    before |-> table]
        /\ raised' = r.raised
        /\ table' = r.dir.table
        /\ fix_table' = r.dir.fix_table
        /\ study' = r.dir.study
        /\ inv_fix' = r.dir.inv_fix
        /\ UNCHANGED <<poolingVars, archiveVars, reportVars, batchVars, queryVars,
                       containsVars,
                   pyvarVars, protocolsVars, loadableVars>>

(***************************************************************************)
(* The tables the fixer is run on.                                         *)
(***************************************************************************)
FactorF == <<"f">>
ProtocolP == <<"p">>
ProtocolQ == <<"q">>

FixLabels ==
    {SourceName, SampleName, ProtocolREF, FactorLabel(FactorF),
     TermSourceREF, TermAccessionNumber, Unit}

Count(h, x) == Cardinality({i \in 1..Len(h) : h[i] = x})

\* a header row with one 'Source Name' and one 'Factor Value[f]' column
IsFixHeader(h) ==
    Count(h, SourceName) = 1 /\ Count(h, FactorLabel(FactorF)) = 1

\* the first data row: the first Protocol REF cell names protocol p, the
\* later ones protocol q; term cells are empty when the row is "blank";
\* every other cell holds a value of its own
FirstRow(h, blank) ==
    [i \in 1..Len(h) |->
        IF h[i] = ProtocolREF
        THEN IF \E j \in 1..(i-1) : h[j] = ProtocolREF THEN ProtocolQ ELSE ProtocolP
        ELSE IF h[i] \in {TermSourceREF, TermAccessionNumber} /\ blank THEN <<>>
        ELSE <<"c", DigitChar(i)>>]

\* how the file is written: every cell quoted; no quotes; no quotes and
\* empty term cells
Styles == {"quoted", "plain", "plain_blank"}

FixTable(h, style) ==
    [header |-> h,
     rows |-> <<FirstRow(h, style # "plain")>>,
     quoted |-> (style = "quoted")]

\* the last study of the investigation next to the table
FixStudies ==
    {[filename |-> <<"s">>, protocols |-> ps, factors |-> fs, params |-> {}] :
        ps \in {{ProtocolP, ProtocolQ}, {ProtocolQ}}, fs \in {{FactorF}, {}}}

IdleFixer ==
    /\ table = [header |-> <<>>, rows |-> <<>>, quoted |-> FALSE]
    /\ fix_table = NoTable
    /\ study = NoInvestigation.study
    /\ inv_fix = NoInvestigation
    /\ call = [factor_name |-> <<>>, protocol_ref |-> None, before |-> table]

IdlePooling ==
    /\ G = [nodes |-> <<>>, edges |-> {}]
    /\ isa = <<>>
    /\ report = <<>>

IdleArchive ==
    /\ archive_isa = [name |-> <<"i">>, studies |-> <<>>]
    /\ files = {}
    /\ filter_by_measurement = None
    /\ result = [none |-> TRUE, names |-> <<>>]
    /\ zip_file = [written |-> FALSE, names |-> <<>>]

NoAssayReport ==
    [grouped |-> FALSE, total_study_groups |-> 0, factors_and_levels |-> <<>>,
     queries |-> <<>>]

IdleReport ==
    /\ s_df = [columns |-> <<>>, rows |-> <<>>]
    /\ a_df = [columns |-> <<>>, rows |-> <<>>]
    /\ assay_report = NoAssayReport

IdleBatch ==
    /\ settings = <<>>
    /\ dirs = <<>>
    /\ fix_calls = <<>>

NoResult == [rows |-> "none"]

IdleQuery ==
    /\ isatab = [columns |-> <<>>, rows |-> <<>>]
    /\ df = isatab
    /\ q = <<>>
    /\ query_result = NoResult
    /\ shorter_result = NoResult

\* Python values a call returns: a bool, or a tuple of its items
PyBool(b) == [type |-> "bool", bool |-> b, items |-> <<>>]
PyTuple(t) == [type |-> "tuple", bool |-> FALSE, items |-> t]
NotReturned == [type |-> "none", bool |-> FALSE, items |-> <<>>]

IdleContains ==
    /\ small_list = <<>>
    /\ big_list = <<>>
    /\ returned = NotReturned

IdlePyvar ==
    /\ input_string = <<>>
    /\ variable = <<>>

NotDumped == [written |-> FALSE, studies |-> <<>>]

IdleProtocols ==
    /\ investigation = <<>>
    /\ dumped = NotDumped

IdleLoadable ==
    /\ listing = <<>>
    /\ printed = <<>>

InitFixer ==
    /\ IdlePooling
    /\ IdleArchive
    /\ IdleReport
    /\ IdleBatch
    /\ IdleQuery
    /\ IdleContains
    /\ IdlePyvar
    /\ IdleProtocols
    /\ IdleLoadable
    /\ \E n \in 2..MaxCols :
        \E h \in [1..n -> FixLabels] :
            /\ IsFixHeader(h)
            /\ \E style \in Styles : table = FixTable(h, style)
    /\ fix_table = NoTable
    /\ study \in FixStudies
    /\ inv_fix = NoInvestigation
    /\ call = [factor_name |-> <<>>, protocol_ref |-> None, before |-> table]
    /\ op = "none"
    /\ raised = "none"
    /\ pc = "ready"

NextFixer ==
    \E factor_name \in {FactorF}, protocol_ref \in {None, ProtocolP, ProtocolQ} :
        FixFactor(factor_name, protocol_ref)

SpecFixer == InitFixer /\ [][NextFixer]_vars

(***************************************************************************)
(* What the column move is claimed to write.                               *)
(***************************************************************************)
\* the number of qualifier headers directly following the header at
\* position i (1-based): Term Source REF + Term Accession Number; Unit +
\* Term Source REF + Term Accession Number; Unit alone; or none
QualifierLen(h, i) ==
    IF i + 2 <= Len(h) /\ h[i+1] = TermSourceREF /\ h[i+2] = TermAccessionNumber
    THEN 2
    ELSE IF i + 3 <= Len(h) /\ h[i+1] = Unit /\ h[i+2] = TermSourceREF
            /\ h[i+3] = TermAccessionNumber
    THEN 3
    ELSE IF i + 1 <= Len(h) /\ h[i+1] = Unit THEN 1
    ELSE 0

\* h[lo..hi] without the positions i..i+k
RECURSIVE KeepRange(_, _, _, _, _)
KeepRange(h, lo, hi, i, k) ==
    IF lo > hi THEN <<>>
    ELSE (IF lo < i \/ lo > i + k THEN <<h[lo]>> ELSE <<>>)
         \o KeepRange(h, lo + 1, hi, i, k)

\* h with the factor header at position i and its qualifiers taken out and
\* re-inserted, in order, directly after position a, the factor header
\* replaced by new_label
ExpectedHeader(h, i, a, new_label) ==
    LET k == QualifierLen(h, i)
    IN  KeepRange(h, 1, a, i, k)
        \o <<new_label>> \o SubSeq(h, i + 1, i + k)
        \o KeepRange(h, a + 1, Len(h), i, k)

CharacteristicsLabel(factor_name) == CharacteristicsOpen \o factor_name \o <<"]">>

ParameterValueLabel(factor_name) == ParameterValueOpen \o factor_name \o <<"]">>

Pos(h, x) == PyIndex(h, x) + 1

\* C1: replace_factor_with_source_characteristic(F), run on a table whose
\* header row contains 'Source Name' and 'Factor Value[F]' at any positions,
\* writes the original header row with 'Factor Value[F]' and the qualifier
\* headers directly following it moved, in order, directly after
\* 'Source Name', the factor header renamed 'Characteristics[F]', every
\* other header kept once in its original relative order.
C1_HeaderMovedAfterSourceName ==
    (pc = "done" /\ op = "replace_factor_with_source_characteristic")
        => /\ raised = "none"
           /\ table.header =
                ExpectedHeader(call.before.header,
                               Pos(call.before.header, FactorLabel(call.factor_name)),
                               Pos(call.before.header, SourceName),
                               CharacteristicsLabel(call.factor_name))

\* C2: replace_factor_with_protocol_parameter_value(F, P), run on a table
\* with a 'Factor Value[F]' header and a Protocol REF column whose first data
\* row holds P (F and P being declared in the study), writes the original
\* header row with 'Factor Value[F]' and the qualifier headers directly
\* following it moved, in order, directly after that Protocol REF column,
\* the factor header renamed 'Parameter Value[F]', every other header kept
\* once in its original relative order.
C2_HeaderMovedAfterProtocolRef ==
    LET h == call.before.header
        row == call.before.rows[1]
        refs == {i \in 1..Len(h) : h[i] = ProtocolREF /\ row[i] = call.protocol_ref}
        a == CHOOSE i \in refs : \A j \in refs : i <= j
    IN  (/\ pc = "done"
         /\ op = "replace_factor_with_protocol_parameter_value"
         /\ refs # {}
         /\ call.protocol_ref \in study.protocols
         /\ call.factor_name \in study.factors)
            => /\ raised = "none"
               /\ fix_table.written
               /\ fix_table.header =
                    ExpectedHeader(h, Pos(h, FactorLabel(call.factor_name)), a,
                                   ParameterValueLabel(call.factor_name))

(***************************************************************************)
(* detect_graph_process_pooling / detect_isatab_process_pooling            *)
(***************************************************************************)
MaxNodes == 3
MaxStudies == 2
MaxAssays == 2

\* G.in_edges(n) of a DiGraph: the edges that end in n
in_edges(graph, n) == {e \in graph.edges : e[2] = n}

\* the loop over [n for n in G.nodes() if isinstance(n, Process)]
RECURSIVE PoolingLoop(_, _, _)
PoolingLoop(graph, nodes, acc) ==
    IF nodes = <<>> THEN acc
    ELSE LET process == Head(nodes)
         IN  IF Cardinality(in_edges(graph, process.id)) > 1
             THEN PoolingLoop(graph, Tail(nodes), Append(acc, process.id))
             ELSE PoolingLoop(graph, Tail(nodes), acc)

\* a slip: every node of G, the isinstance filter left out
AllNodes(graph) == graph.nodes

\* [n for n in G.nodes() if isinstance(n, Process)]
ProcessNodes(graph) ==
    SelectSeq(graph.nodes, LAMBDA n : n.kind = "Process")

detect_graph_process_pooling(graph) ==
    PoolingLoop(graph, ProcessNodes(graph), <<>>)

\* a slip: the table is reported whatever its pooling list holds
ReportAlways(acc, filename, pooling_list) ==
    Append(acc, [filename |-> filename, pooling |-> pooling_list])

\* if len(pooling_list) > 0: report.append({filename: pooling_list})
ReportIfPooling(acc, filename, pooling_list) ==
    IF Len(pooling_list) > 0
    THEN Append(acc, [filename |-> filename, pooling |-> pooling_list])
    ELSE acc

\* the inner loop over study.assays
RECURSIVE AssayLoop(_, _)
AssayLoop(assays, acc) ==
    IF assays = <<>> THEN acc
    ELSE LET assay == Head(assays)
             pooling_list == detect_graph_process_pooling(assay.graph)
         IN  AssayLoop(Tail(assays),
                       ReportIfPooling(acc, assay.filename, pooling_list))

\* the outer loop over ISA.studies
RECURSIVE StudyLoop(_, _)
StudyLoop(studies, acc) ==
    IF studies = <<>> THEN acc
    ELSE LET s == Head(studies)
             pooling_list == detect_graph_process_pooling(s.graph)
             acc1 == ReportIfPooling(acc, s.filename, pooling_list)
         IN  StudyLoop(Tail(studies), AssayLoop(s.assays, acc1))

detect_isatab_process_pooling(ISA) == StudyLoop(ISA, <<>>)

DetectGraphProcessPooling ==
    /\ pc = "ready"
    /\ pc' = "done"
    /\ op' = "detect_graph_process_pooling"
    /\ report' = detect_graph_process_pooling(G)
    /\ raised' = "none"
    /\ UNCHANGED <<G, isa, fixerVars, archiveVars, reportVars, batchVars,
                   queryVars, containsVars,
                   pyvarVars, protocolsVars, loadableVars>>

DetectIsatabProcessPooling ==
    /\ pc = "ready"
    /\ pc' = "done"
    /\ op' = "detect_isatab_process_pooling"
    /\ report' = detect_isatab_process_pooling(isa)
    /\ raised' = "none"
    /\ UNCHANGED <<G, isa, fixerVars, archiveVars, reportVars, batchVars,
                   queryVars, containsVars,
                   pyvarVars, protocolsVars, loadableVars>>

\* a graph of n nodes, each a Process or a material, with edges es
Graph(n, kinds, es) ==
    [nodes |-> [i \in 1..n |-> [id |-> i, kind |-> kinds[i]]], edges |-> es]

\* the edges a graph of n nodes may have: between distinct nodes
NodePairs(n) == {e \in (1..n) \X (1..n) : e[1] # e[2]}

\* a table's graph: two samples pooled into one process, or a plain chain
PooledGraph ==
    [nodes |-> <<[id |-> 1, kind |-> "Sample"], [id |-> 2, kind |-> "Sample"],
                 [id |-> 3, kind |-> "Process"]>>,
     edges |-> {<<1, 3>>, <<2, 3>>}]

PlainGraph ==
    [nodes |-> <<[id |-> 1, kind |-> "Sample"], [id |-> 2, kind |-> "Process"],
                 [id |-> 3, kind |-> "Sample"]>>,
     edges |-> {<<1, 2>>, <<2, 3>>}]

\* investigations of up to MaxStudies studies with up to MaxAssays assays;
\* study i is file <<"s", i>>, its j-th assay file <<"a", i, j>>; a shape
\* says which of the tables hold a pooled process
TableGraph(pooled) == IF pooled THEN PooledGraph ELSE PlainGraph

StudyShapes ==
    UNION {[pooled : BOOLEAN, assays : [1..m -> BOOLEAN]] : m \in 0..MaxAssays}

PoolStudy(i, shape) ==
    [filename |-> <<"s", i>>,
     graph |-> TableGraph(shape.pooled),
     assays |-> [j \in 1..Len(shape.assays) |->
                    [filename |-> <<"a", i, j>>,
                     graph |-> TableGraph(shape.assays[j])]]]

PoolInvestigation(shapes) == [i \in 1..Len(shapes) |-> PoolStudy(i, shapes[i])]

InitPooling ==
    /\ IdleFixer
    /\ IdleArchive
    /\ IdleReport
    /\ IdleBatch
    /\ IdleQuery
    /\ IdleContains
    /\ IdlePyvar
    /\ IdleProtocols
    /\ IdleLoadable
    /\ \/ /\ \E n \in 0..MaxNodes :
                \E kinds \in [1..n -> {"Process", "Sample"}] :
                    \E es \in SUBSET NodePairs(n) : G = Graph(n, kinds, es)
          /\ isa = <<>>
       \/ /\ G = [nodes |-> <<>>, edges |-> {}]
          /\ \E n \in 0..MaxStudies :
                \E shapes \in [1..n -> StudyShapes] :
                    isa = PoolInvestigation(shapes)
    /\ report = <<>>
    /\ op = "none"
    /\ raised = "none"
    /\ pc = "ready"

NextPooling == DetectGraphProcessPooling \/ DetectIsatabProcessPooling

SpecPooling == InitPooling /\ [][NextPooling]_vars

\* the ids of the Process nodes of a graph with more than one incoming edge
PooledIds(graph) ==
    {graph.nodes[i].id : i \in
        {k \in 1..Len(graph.nodes) :
            /\ graph.nodes[k].kind = "Process"
            /\ Cardinality({e \in graph.edges : e[2] = graph.nodes[k].id}) > 1}}

NoRepeat(l) == \A i, j \in 1..Len(l) : i # j => l[i] # l[j]

Elements(l) == {l[i] : i \in 1..Len(l)}

\* C3: detect_graph_process_pooling(G) returns the ids of exactly the
\* Process nodes of G with more than one incoming edge, each once; a Process
\* with at most one incoming edge and any non-Process node is not reported.
C3_ExactlyPooledProcesses ==
    (pc = "done" /\ op = "detect_graph_process_pooling")
        => /\ Elements(report) = PooledIds(G)
           /\ NoRepeat(report)

\* a graph with a pooled Process, a Process with one incoming edge and a
\* non-Process node with two incoming edges has been checked
C3_Witness ==
    /\ pc = "done"
    /\ op = "detect_graph_process_pooling"
    /\ report # <<>>
    /\ \E i, j \in 1..Len(G.nodes) :
        /\ G.nodes[i].kind = "Sample"
        /\ Cardinality(in_edges(G, G.nodes[i].id)) = 2
        /\ G.nodes[j].kind = "Process"
        /\ Cardinality(in_edges(G, G.nodes[j].id)) = 1

\* the tables of an investigation in its order: each study, then its assays
RECURSIVE TablesInOrder(_)
TablesInOrder(studies) ==
    IF studies = <<>> THEN <<>>
    ELSE <<[filename |-> Head(studies).filename, graph |-> Head(studies).graph]>>
         \o Head(studies).assays
         \o TablesInOrder(Tail(studies))

PooledTables(studies) ==
    SelectSeq(TablesInOrder(studies), LAMBDA t : PooledIds(t.graph) # {})

\* C4: detect_isatab_process_pooling returns one entry {table filename:
\* pooled process ids} for each study table and each assay table with at
\* least one pooled process and none for the other tables, a study's entry
\* before those of its assays, studies and assays in the investigation's order.
C4_OneEntryPerPooledTable ==
    (pc = "done" /\ op = "detect_isatab_process_pooling")
        => /\ Len(report) = Len(PooledTables(isa))
           /\ \A k \in 1..Len(report) :
                /\ report[k].filename = PooledTables(isa)[k].filename
                /\ Elements(report[k].pooling) = PooledIds(PooledTables(isa)[k].graph)
                /\ NoRepeat(report[k].pooling)

\* two studies, a pooled study table followed by a pooled assay table of
\* its own, and some table without pooling that is left out
C4_Witness ==
    /\ pc = "done"
    /\ op = "detect_isatab_process_pooling"
    /\ Len(isa) = 2
    /\ Len(report) < Len(TablesInOrder(isa))
    /\ \E k \in 1..(Len(report) - 1) :
        /\ report[k].filename[1] = "s"
        /\ report[k+1].filename[1] = "a"
        /\ report[k+1].filename[2] = report[k].filename[2]

(***************************************************************************)
(* create_isatab_archive                                                   *)
(***************************************************************************)
MaxArchiveStudies == 2
MaxArchiveAssays == 1

RECURSIVE Flatten(_)
Flatten(ll) == IF ll = <<>> THEN <<>> ELSE Head(ll) \o Flatten(Tail(ll))

\* a slip: every assay of the study, whatever the filter
EveryAssay(s, measurement) == s.assays

\* selected_assays of study s (the if / else inside the first loop)
SelectedAssays(s, measurement) ==
    IF measurement # None
    THEN SelectSeq(s.assays, LAMBDA a : a.measurement_type = measurement)
    ELSE s.assays

\* all_files_in_isatab after the first loop over ISA.studies
AllFilesInIsatab(ISA, measurement) ==
    Flatten([i \in 1..Len(ISA.studies) |->
        Flatten([j \in 1..Len(SelectedAssays(ISA.studies[i], measurement)) |->
            SelectedAssays(ISA.studies[i], measurement)[j].data_files])])

\* the value the variable selected_assays holds once the first loop is
\* over: the selection made for the last study
SelectedAssaysAfterLoop(ISA, measurement) ==
    IF ISA.studies = <<>> THEN <<>>
    ELSE SelectedAssays(ISA.studies[Len(ISA.studies)], measurement)

\* found_files: those of all_files_in_isatab for which os.path.isfile holds
FoundFiles(all_files, existing) == SelectSeq(all_files, LAMBDA f : f \in existing)

\* missing_files = [f for f in all_files_in_isatab if f not in found_files]
MissingFiles(all_files, existing) ==
    SelectSeq(all_files,
              LAMBDA f : f \notin Elements(FoundFiles(all_files, existing)))

\* the names written into the ZipFile, in order: the investigation file,
\* then per study its table and the tables of selected_assays, then the
\* data files
ZipNames(ISA, measurement) ==
    <<ISA.name>>
    \o Flatten([i \in 1..Len(ISA.studies) |->
            <<ISA.studies[i].filename>>
            \o [j \in 1..Len(SelectedAssaysAfterLoop(ISA, measurement)) |->
                    SelectedAssaysAfterLoop(ISA, measurement)[j].filename]])
    \o AllFilesInIsatab(ISA, measurement)

create_isatab_archive ==
    /\ pc = "ready"
    /\ pc' = "done"
    /\ op' = "create_isatab_archive"
    /\ raised' = "none"
    /\ LET all_files_in_isatab == AllFilesInIsatab(archive_isa, filter_by_measurement)
           missing_files == MissingFiles(all_files_in_isatab, files)
       IN  IF Len(missing_files) = 0
           THEN /\ zip_file' = [written |-> TRUE,
                                names |-> ZipNames(archive_isa, filter_by_measurement)]
                /\ result' = [none |-> FALSE, names |-> zip_file'.names]
           ELSE /\ result' = [none |-> TRUE, names |-> <<>>]
                /\ UNCHANGED zip_file
    /\ UNCHANGED <<archive_isa, files, filter_by_measurement, fixerVars,
                   poolingVars, reportVars, batchVars, queryVars, containsVars,
                   pyvarVars, protocolsVars, loadableVars>>

\* measurement type terms
MeasurementA == <<"m", "a">>
MeasurementB == <<"m", "b">>

\* an assay: its measurement type and whether it references a data file
AssayShapes == [measurement_type : {MeasurementA, MeasurementB}, has_data : BOOLEAN]

ArchiveStudyShapes == UNION {[1..m -> AssayShapes] : m \in 0..MaxArchiveAssays}

\* study i is file <<"s", i>>, its j-th assay file <<"a", i, j>> with data
\* file <<"d", i, j>>
ArchiveStudy(i, shape) ==
    [filename |-> <<"s", i>>,
     assays |-> [j \in 1..Len(shape) |->
                    [filename |-> <<"a", i, j>>,
                     measurement_type |-> shape[j].measurement_type,
                     data_files |-> IF shape[j].has_data THEN <<<<"d", i, j>>>>
                                    ELSE <<>>]]]

ArchiveInvestigation(shapes) ==
    [name |-> <<"i">>,
     studies |-> [i \in 1..Len(shapes) |-> ArchiveStudy(i, shapes[i])]]

\* every data file the investigation references, selected or not
DataFilesOf(ISA) == Elements(AllFilesInIsatab(ISA, None))

\* the table files, which isatab.load has read
TableFilesOf(ISA) ==
    {ISA.name}
    \cup {ISA.studies[i].filename : i \in 1..Len(ISA.studies)}
    \cup UNION {{ISA.studies[i].assays[j].filename :
                    j \in 1..Len(ISA.studies[i].assays)} :
                i \in 1..Len(ISA.studies)}

InitArchive ==
    /\ IdleFixer
    /\ IdlePooling
    /\ IdleReport
    /\ IdleBatch
    /\ IdleQuery
    /\ IdleContains
    /\ IdlePyvar
    /\ IdleProtocols
    /\ IdleLoadable
    /\ \E n \in 0..MaxArchiveStudies :
        \E shapes \in [1..n -> ArchiveStudyShapes] :
            /\ archive_isa = ArchiveInvestigation(shapes)
            /\ \E absent \in {{}} \cup {{d} : d \in DataFilesOf(archive_isa)} :
                files = (TableFilesOf(archive_isa) \cup DataFilesOf(archive_isa))
                            \ absent
    /\ filter_by_measurement \in {None, MeasurementA, MeasurementB}
    /\ result = [none |-> TRUE, names |-> <<>>]
    /\ zip_file = [written |-> FALSE, names |-> <<>>]
    /\ op = "none"
    /\ raised = "none"
    /\ pc = "ready"

NextArchive == create_isatab_archive

SpecArchive == InitArchive /\ [][NextArchive]_vars

\* the data files referenced by the assays selected in their own study
SelectedDataFiles(ISA, measurement) ==
    UNION {UNION {Elements(ISA.studies[i].assays[j].data_files) :
                    j \in {k \in 1..Len(ISA.studies[i].assays) :
                            \/ measurement = None
                            \/ ISA.studies[i].assays[k].measurement_type = measurement}} :
           i \in 1..Len(ISA.studies)}

\* the table files of the assays selected in their own study
SelectedAssayFiles(ISA, measurement) ==
    UNION {{ISA.studies[i].assays[j].filename :
                    j \in {k \in 1..Len(ISA.studies[i].assays) :
                            \/ measurement = None
                            \/ ISA.studies[i].assays[k].measurement_type = measurement}} :
           i \in 1..Len(ISA.studies)}

\* C5: create_isatab_archive returns None and creates no archive exactly
\* when a data file referenced by a selected assay is not an existing file of
\* the investigation's directory; otherwise it writes the archive and
\* returns the list of the names zipped.
C5_NoneIffDataFileMissing ==
    (pc = "done" /\ op = "create_isatab_archive")
        => LET missing ==
                \E d \in SelectedDataFiles(archive_isa, filter_by_measurement) :
                    d \notin files
           IN  /\ result.none <=> missing
               /\ result.none => ~ zip_file.written
               /\ ~ result.none => /\ zip_file.written
                                   /\ result.names = zip_file.names
                                   /\ result.names # <<>>

\* a call with a filter that went through although a data file of an
\* assay that is not selected is missing
C5_Witness ==
    /\ pc = "done"
    /\ op = "create_isatab_archive"
    /\ ~ result.none
    /\ filter_by_measurement # None
    /\ \E d \in DataFilesOf(archive_isa) : d \notin files

\* C6: on success the archive holds the investigation file, every study's
\* table file, for each study the table files of exactly that study's
\* selected assays, and the data files of those assays, for investigations
\* with any number of studies.
C6_ArchiveHoldsSelectedTables ==
    (pc = "done" /\ op = "create_isatab_archive" /\ ~ result.none)
        => Elements(zip_file.names) =
                {archive_isa.name}
                \cup {archive_isa.studies[i].filename :
                        i \in 1..Len(archive_isa.studies)}
                \cup SelectedAssayFiles(archive_isa, filter_by_measurement)
                \cup SelectedDataFiles(archive_isa, filter_by_measurement)

(***************************************************************************)
(* IsaTabAnalyzer.generate_study_design_report: the block that fills one   *)
(* assay's report from the study table and the assay table.                *)
(***************************************************************************)
MaxRows == 2

SuffixX == <<"_", "x">>
SuffixY == <<"_", "y">>
EqEq == <<" ", "=", "=", " ">>
And == <<" ", "a", "n", "d", " ">>
FactorG == <<"g">>

\* sep.join(parts)
RECURSIVE Join(_, _)
Join(sep, parts) ==
    IF parts = <<>> THEN <<>>
    ELSE IF Len(parts) = 1 THEN parts[1]
    ELSE parts[1] \o sep \o Join(sep, Tail(parts))

DropAt(l, k) == SubSeq(l, 1, k - 1) \o SubSeq(l, k + 1, Len(l))

\* pd.merge(left, right, on=key): an inner join in the order of the left
\* rows; a column other than the key that both frames hold is suffixed
\* '_x' on the left and '_y' on the right
pd_merge(left, right, key) ==
    LET overlap == (Elements(left.columns) \cap Elements(right.columns)) \ {key}
        kr == Pos(right.columns, key)
        kl == Pos(left.columns, key)
        left_columns ==
            [i \in 1..Len(left.columns) |->
                IF left.columns[i] \in overlap THEN left.columns[i] \o SuffixX
                ELSE left.columns[i]]
        right_columns ==
            [i \in 1..Len(right.columns) |->
                IF right.columns[i] \in overlap THEN right.columns[i] \o SuffixY
                ELSE right.columns[i]]
        matches(lrow) ==
            SelectSeq(right.rows, LAMBDA rrow : rrow[kr] = lrow[kl])
    IN  [columns |-> left_columns \o DropAt(right_columns, kr),
         rows |-> Flatten([i \in 1..Len(left.rows) |->
                    [j \in 1..Len(matches(left.rows[i])) |->
                        left.rows[i] \o DropAt(matches(left.rows[i])[j], kr)]])]

\* the positions of [x for x in merged_df.columns if x.startswith("Factor Value")]
RECURSIVE FactorPositions(_, _)
FactorPositions(columns, i) ==
    IF i > Len(columns) THEN <<>>
    ELSE (IF StartsWith(columns[i], FactorValue) THEN <<i>> ELSE <<>>)
         \o FactorPositions(columns, i + 1)

\* df[cols]
Project(frame, positions) ==
    [columns |-> [k \in 1..Len(positions) |-> frame.columns[positions[k]]],
     rows |-> [r \in 1..Len(frame.rows) |->
                [k \in 1..Len(positions) |-> frame.rows[r][positions[k]]]]]

\* DataFrame.drop_duplicates(): the first occurrence of every row is kept
RECURSIVE DropDuplicateRows(_, _)
DropDuplicateRows(rows, kept) ==
    IF rows = <<>> THEN kept
    ELSE DropDuplicateRows(Tail(rows),
            IF Head(rows) \in Elements(kept) THEN kept ELSE Append(kept, Head(rows)))

drop_duplicates(frame) ==
    [columns |-> frame.columns, rows |-> DropDuplicateRows(frame.rows, <<>>)]

\* x[13:-1]
FactorName(x) == SubSeq(x, 14, Len(x) - 1)

\* factors_and_levels[x].add(y), the key created on its first use (the
\* dict keeps the order in which the keys were inserted)
AddLevel(factors_and_levels, x, y) ==
    IF \E k \in 1..Len(factors_and_levels) : factors_and_levels[k].factor = x
    THEN [k \in 1..Len(factors_and_levels) |->
            IF factors_and_levels[k].factor = x
            THEN [factor |-> x, levels |-> factors_and_levels[k].levels \cup {y}]
            ELSE factors_and_levels[k]]
    ELSE Append(factors_and_levels, [factor |-> x, levels |-> {y}])

\* for x, y in zip(factors_list, row): ...
RECURSIVE ZipLoop(_, _, _, _)
ZipLoop(factors_list, row, k, factors_and_levels) ==
    IF k > Len(factors_list) \/ k > Len(row) THEN factors_and_levels
    ELSE ZipLoop(factors_list, row, k + 1,
                 AddLevel(factors_and_levels, factors_list[k], row[k]))

\* fvs of one row, joined: 'f == x and g == y'
RowQuery(factors_list, row) ==
    Join(And, [k \in 1..Len(factors_list) |-> Join(EqEq, <<factors_list[k], row[k]>>)])

\* for i, row in study_group_factors_df.iterrows(): ...
RECURSIVE RowLoop(_, _, _)
RowLoop(factors_list, rows, acc) ==
    IF rows = <<>> THEN acc
    ELSE RowLoop(factors_list, Tail(rows),
            [queries |-> Append(acc.queries, RowQuery(factors_list, Head(rows))),
             factors_and_levels |->
                ZipLoop(factors_list, Head(rows), 1, acc.factors_and_levels)])

\* study_group_factors_df = merged_df[factor_cols].drop_duplicates()
StudyGroupFactors(merged_df, factor_cols) ==
    drop_duplicates(Project(merged_df, factor_cols))

AssayReport(study_table, assay_table) ==
    LET merged_df == pd_merge(study_table, assay_table, SampleName)
        factor_cols == FactorPositions(merged_df.columns, 1)
        study_group_factors_df == StudyGroupFactors(merged_df, factor_cols)
        factors_list ==
            [k \in 1..Len(study_group_factors_df.columns) |->
                FactorName(study_group_factors_df.columns[k])]
        looped == RowLoop(factors_list, study_group_factors_df.rows,
                          [queries |-> <<>>, factors_and_levels |-> <<>>])
    IN  IF Len(factor_cols) > 0
        THEN [grouped |-> TRUE,
              total_study_groups |-> Len(looped.queries),
              factors_and_levels |->
                [k \in 1..Len(looped.factors_and_levels) |->
                    [factor |-> looped.factors_and_levels[k].factor,
                     num_levels |-> Cardinality(looped.factors_and_levels[k].levels)]],
              queries |-> looped.queries]
        ELSE NoAssayReport

generate_study_design_report ==
    /\ pc = "ready"
    /\ pc' = "done"
    /\ op' = "generate_study_design_report"
    /\ raised' = "none"
    /\ assay_report' = AssayReport(s_df, a_df)
    /\ UNCHANGED <<s_df, a_df, fixerVars, poolingVars, archiveVars, batchVars,
                   queryVars, containsVars,
                   pyvarVars, protocolsVars, loadableVars>>

\* cell values: sample names and factor levels
CellValues == {<<"x">>, <<"y">>}

\* a table with a 'Sample Name' column, the given Factor Value columns and
\* up to MaxRows rows
ReportTables(factors) ==
    LET columns == <<SampleName>> \o [k \in 1..Len(factors) |-> FactorLabel(factors[k])]
    IN  UNION {[columns : {columns},
                rows : [1..n -> [1..Len(columns) -> CellValues]]] : n \in 0..MaxRows}

InitReport ==
    /\ IdleFixer
    /\ IdlePooling
    /\ IdleArchive
    /\ IdleBatch
    /\ IdleQuery
    /\ IdleContains
    /\ IdlePyvar
    /\ IdleProtocols
    /\ IdleLoadable
    /\ \E factors \in {<<>>, <<FactorF>>, <<FactorG>>, <<FactorF, FactorG>>} :
        s_df \in ReportTables(factors)
    /\ \E factors \in {<<>>, <<FactorF>>} : a_df \in ReportTables(factors)
    /\ assay_report = NoAssayReport
    /\ op = "none"
    /\ raised = "none"
    /\ pc = "ready"

NextReport == generate_study_design_report

SpecReport == InitReport /\ [][NextReport]_vars

\* the factor a Factor Value column is about: the text between '[' and the
\* first ']' of its label
BracketName(label) ==
    SubSeq(label, 14,
           (CHOOSE i \in 14..Len(label) :
                label[i] = "]" /\ \A j \in 14..(i-1) : label[j] # "]") - 1)

\* C7: for an assay whose study table merged with the assay table on
\* 'Sample Name' has at least one Factor Value column (and at least one
\* row), total_study_groups is the number of distinct combinations of
\* values over all the Factor Value columns among the merged rows, and
\* factors_and_levels has one entry per factor, whose num_levels is the
\* number of distinct values of that factor's column.
C7_GroupsAndLevelsPerFactor ==
    LET merged == pd_merge(s_df, a_df, SampleName)
        fc == FactorPositions(merged.columns, 1)
        rows == 1..Len(merged.rows)
        combos == {[k \in 1..Len(fc) |-> merged.rows[r][fc[k]]] : r \in rows}
        column(c) == {merged.rows[r][c] : r \in rows}
        factors == {BracketName(merged.columns[fc[k]]) : k \in 1..Len(fc)}
        fal == assay_report.factors_and_levels
    IN  (/\ pc = "done"
         /\ op = "generate_study_design_report"
         /\ Len(fc) > 0
         /\ merged.rows # <<>>)
            => /\ assay_report.grouped
               /\ assay_report.total_study_groups = Cardinality(combos)
               /\ Len(fal) = Cardinality(factors)
               /\ \A f \in factors :
                    \E e \in 1..Len(fal) :
                        /\ StartsWith(fal[e].factor, f)
                        /\ \A k \in 1..Len(fc) :
                            BracketName(merged.columns[fc[k]]) = f
                                => fal[e].num_levels = Cardinality(column(fc[k]))

(***************************************************************************)
(* batch_fix_isatabs                                                       *)
(***************************************************************************)
MaxPaths == 2
MaxEntries == 2

\* a {"factor": ..., "protocol_ref": ...} dict
Entry(factor, protocol_ref) == [factor |-> factor, protocol_ref |-> protocol_ref]

\* the value of a key of settings: a list of entries, the shape of the
\* docstring, or one entry
ListValue(entries) == [shape |-> "list", entries |-> entries]
DictValue(entry) == [shape |-> "dict", entries |-> <<entry>>]

\* value['factor'], value['protocol_ref']: a list cannot be indexed by a str
GetItem(value, key) ==
    IF value.shape = "list"
    THEN [raised |-> "TypeError", item |-> None]
    ELSE [raised |-> "none",
          item |-> IF key = "factor" THEN value.entries[1].factor
                   ELSE value.entries[1].protocol_ref]

\* the loop over settings.keys(), from the k-th key on
\* what the loop leaves after the fix_factor call of the k-th key
RECURSIVE BatchLoop(_, _, _, _)
AfterFixFactor(s, k, ds, made, r) ==
    IF r.raised # "none"
    THEN [raised |-> r.raised, dirs |-> [ds EXCEPT ![k] = r.dir], calls |-> made]
    ELSE BatchLoop(s, k + 1, [ds EXCEPT ![k] = r.dir], made)

\* the body of the loop for the k-th key, with the two subscripted values
LoopBody(s, k, ds, calls, factor_name, protocol_ref) ==
    IF factor_name.raised # "none"
    THEN [raised |-> factor_name.raised, dirs |-> ds, calls |-> calls]
    ELSE IF protocol_ref.raised # "none"
    THEN [raised |-> protocol_ref.raised, dirs |-> ds, calls |-> calls]
    ELSE AfterFixFactor(s, k, ds,
            Append(calls, [path |-> s[k].path,
                           factor_name |-> factor_name.item,
                           protocol_ref |-> protocol_ref.item]),
            fix_factor(ds[k], factor_name.item, protocol_ref.item))

\* the loop over settings.keys(), from the k-th key on
BatchLoop(s, k, ds, calls) ==
    IF k > Len(s)
    THEN [raised |-> "none", dirs |-> ds, calls |-> calls]
    ELSE LoopBody(s, k, ds, calls, GetItem(s[k].value, "factor"),
                  GetItem(s[k].value, "protocol_ref"))

batch_fix_isatabs ==
    LET r == BatchLoop(settings, 1, dirs, <<>>)
    IN  /\ pc = "ready"
        /\ pc' = "done"
        /\ op' = "batch_fix_isatabs"
        /\ raised' = r.raised
        /\ dirs' = r.dirs
        /\ fix_calls' = r.calls
        /\ UNCHANGED <<settings, fixerVars, poolingVars, archiveVars, reportVars,
                       queryVars, containsVars,
                   pyvarVars, protocolsVars, loadableVars>>

BatchEntries == {Entry(FactorF, None), Entry(FactorF, ProtocolP)}

BatchValues ==
    UNION {{ListValue(es) : es \in [1..n -> BatchEntries]} : n \in 1..MaxEntries}
        \cup {DictValue(e) : e \in BatchEntries}

BatchHeaders ==
    {<<SourceName, FactorLabel(FactorF), SampleName>>,
     <<SourceName, ProtocolREF, SampleName, FactorLabel(FactorF)>>}

BatchDirectory(h) ==
    Directory(FixTable(h, "plain"), NoTable,
              [filename |-> <<"s">>, protocols |-> {ProtocolP, ProtocolQ},
               factors |-> {FactorF}, params |-> {}],
              NoInvestigation)

InitBatch ==
    /\ IdleFixer
    /\ IdlePooling
    /\ IdleArchive
    /\ IdleReport
    /\ IdleQuery
    /\ IdleContains
    /\ IdlePyvar
    /\ IdleProtocols
    /\ IdleLoadable
    /\ \E n \in 1..MaxPaths :
        /\ \E vs \in [1..n -> BatchValues] :
            settings = [k \in 1..n |-> [path |-> k, value |-> vs[k]]]
        /\ \E hs \in [1..n -> BatchHeaders] :
            dirs = [k \in 1..n |-> BatchDirectory(hs[k])]
    /\ fix_calls = <<>>
    /\ op = "none"
    /\ raised = "none"
    /\ pc = "ready"

NextBatch == batch_fix_isatabs

SpecBatch == InitBatch /\ [][NextBatch]_vars

\* the calls the entries of the settings ask for: one per entry, path by
\* path in key order
RECURSIVE ListedCalls(_, _)
ListedCalls(s, k) ==
    IF k > Len(s) THEN <<>>
    ELSE [e \in 1..Len(s[k].value.entries) |->
            [path |-> s[k].path,
             factor_name |-> s[k].value.entries[e].factor,
             protocol_ref |-> s[k].value.entries[e].protocol_ref]]
         \o ListedCalls(s, k + 1)

\* C8: when every path of settings maps to a list of {factor, protocol_ref}
\* entries, the call makes exactly one fix_factor call per listed entry, on
\* that path's table and with that entry's factor and protocol_ref, for
\* every path (as far as no fix_factor call raises).
C8_FixFactorPerListedEntry ==
    (/\ pc = "done"
     /\ op = "batch_fix_isatabs"
     /\ \A k \in 1..Len(settings) : settings[k].value.shape = "list")
        => \/ fix_calls = ListedCalls(settings, 1)
           \/ /\ raised \in {"IndexError", "ValueError", "ISAModelAttributeError"}
              /\ fix_calls = SubSeq(ListedCalls(settings, 1), 1, Len(fix_calls))

(***************************************************************************)
(* contains                                                                *)
(***************************************************************************)
MaxListLen == 3

\* the inner for loop from j on: TRUE when it ends without a break
RECURSIVE InnerLoop(_, _, _, _)
InnerLoop(small, big, i, j) ==
    IF j >= Len(small) THEN TRUE
    ELSE IF PyGet(big, i + j) # PyGet(small, j) THEN FALSE
    ELSE InnerLoop(small, big, i, j + 1)

\* the outer for loop from i on
RECURSIVE OuterLoop(_, _, _)
OuterLoop(small, big, i) ==
    IF i >= Len(big) - Len(small) + 1 THEN PyBool(FALSE)
    ELSE IF InnerLoop(small, big, i, 0) THEN PyTuple(<<i, i + Len(small)>>)
    ELSE OuterLoop(small, big, i + 1)

contains(small, big) ==
    IF Len(small) = 0 THEN PyBool(FALSE) ELSE OuterLoop(small, big, 0)

Contains ==
    /\ pc = "ready"
    /\ pc' = "done"
    /\ op' = "contains"
    /\ raised' = "none"
    /\ returned' = contains(small_list, big_list)
    /\ UNCHANGED <<small_list, big_list, fixerVars, poolingVars, archiveVars,
                   reportVars, batchVars, queryVars, pyvarVars,
                   protocolsVars, loadableVars>>

ListItems == {1, 2}

InitContains ==
    /\ IdleFixer
    /\ IdlePooling
    /\ IdleArchive
    /\ IdleReport
    /\ IdleBatch
    /\ IdleQuery
    /\ IdlePyvar
    /\ IdleProtocols
    /\ IdleLoadable
    /\ \E n \in 0..MaxListLen : small_list \in [1..n -> ListItems]
    /\ \E n \in 0..MaxListLen : big_list \in [1..n -> ListItems]
    /\ returned = NotReturned
    /\ op = "none"
    /\ raised = "none"
    /\ pc = "ready"

NextContains == Contains

SpecContains == InitContains /\ [][NextContains]_vars

\* small occurs in big as a run of adjacent elements
OccursIn(small, big) ==
    \E i \in 1..(Len(big) - Len(small) + 1) :
        SubSeq(big, i, i + Len(small) - 1) = small

\* C10: the call returns True when small_list is not empty and occurs in
\* big_list as a run of adjacent elements, and False otherwise.
C10_TrueIffContiguousRun ==
    (pc = "done" /\ op = "contains")
        => returned = PyBool(Len(small_list) > 0 /\ OccursIn(small_list, big_list))

(***************************************************************************)
(* pyvar, recast_columns, factor_query_isatab                              *)
(***************************************************************************)
MaxFactorColumns == 2
MaxQueryRows == 2
MaxConjuncts == 2

AlphaChars ==
    {"a","b","c","d","e","f","g","h","i","j","k","l","m","n","o","p","q","r",
     "s","t","u","v","w","x","y","z","A","B","C","D","E","F","G","H","I","J",
     "K","L","M","N","O","P","Q","R","S","T","U","V","W","X","Y","Z"}

DigitChars == {"0","1","2","3","4","5","6","7","8","9"}

\* the for loop of pyvar over the characters ch of its argument
RECURSIVE PyvarLoop(_, _)
PyvarLoop(chars, string) ==
    IF chars = <<>> THEN string
    ELSE PyvarLoop(Tail(chars),
            IF Head(chars) \in AlphaChars \/ Head(chars) \in DigitChars
            THEN string
            ELSE StrReplace(string, <<Head(chars)>>, <<"_">>))

pyvar(string) == PyvarLoop(string, string)

\* list(map(lambda x: v if x == k else x, columns))
CastColumn(columns, k, v) ==
    [i \in 1..Len(columns) |-> IF columns[i] = k THEN v ELSE columns[i]]

recast_columns(columns) ==
    CastColumn(CastColumn(CastColumn(columns,
        MaterialType, CharacteristicsLabel(MaterialType)),
        Date, ParameterValueLabel(Date)),
        Performer, ParameterValueLabel(Performer))

\* s.find(sep) as a 0-based index, -1 when sep does not occur
Find(s, sep) ==
    IF StrIn(sep, s)
    THEN (CHOOSE i \in 1..(Len(s) - Len(sep) + 1) :
            /\ SubSeq(s, i, i + Len(sep) - 1) = sep
            /\ \A j \in 1..(i-1) : SubSeq(s, j, j + Len(sep) - 1) # sep) - 1
    ELSE -1

\* s.split(sep)
RECURSIVE Split(_, _)
Split(s, sep) ==
    LET i == Find(s, sep)
    IN  IF i = -1 THEN <<s>>
        ELSE <<SubSeq(s, 1, i)>> \o Split(StrFrom(s, i + Len(sep)), sep)

Factor_Value_ == <<"F","a","c","t","o","r","_","V","a","l","u","e","_">>

\* the loop over qlist: the formatted parts, or the IndexError of
\* factor_value[1]
RECURSIVE FmtQueryLoop(_, _)
FmtQueryLoop(qlist, fmt_query) ==
    IF qlist = <<>> THEN [raised |-> "none", fmt_query |-> fmt_query]
    ELSE LET factor_value == Split(Head(qlist), EqEq)
         IN  IF Len(factor_value) < 2
             THEN [raised |-> "IndexError", fmt_query |-> fmt_query]
             ELSE FmtQueryLoop(Tail(qlist),
                    Append(fmt_query,
                           Factor_Value_ \o pyvar(PyGet(factor_value, 0))
                               \o <<"_">> \o EqEq \o <<"'">>
                               \o PyGet(factor_value, 1) \o <<"'">>))

\* how DataFrame.query resolves a name that several columns carry: the
\* columns are gathered into a dict, so the last one stands for the name,
\* or the gathering fails
DuplicatePolicies == {"last", "TypeError"}

\* the positions of the columns called name
Named(columns, name) == {c \in 1..Len(columns) : columns[c] = name}

\* 'text' without its quotes
StripQuotes(lit) ==
    IF Len(lit) >= 2 /\ lit[1] = "'" /\ lit[Len(lit)] = "'"
    THEN SubSeq(lit, 2, Len(lit) - 1)
    ELSE lit

\* DataFrame.query of a conjunction of name == 'text' comparisons
DataFrameQuery(frame, expr, policy) ==
    LET terms == [k \in 1..Len(Split(expr, And)) |->
                    Split(Split(expr, And)[k], EqEq)]
        names == {terms[k][1] : k \in 1..Len(terms)}
        Column(name) == CHOOSE c \in Named(frame.columns, name) :
                            \A d \in Named(frame.columns, name) : d <= c
        Matches(row) ==
            \A k \in 1..Len(terms) :
                row[Column(terms[k][1])] = StripQuotes(terms[k][2])
    IN  IF \E name \in names : Named(frame.columns, name) = {}
        THEN [raised |-> "UndefinedVariableError", rows |-> <<>>]
        ELSE IF /\ policy = "TypeError"
                /\ \E name \in names : Cardinality(Named(frame.columns, name)) > 1
        THEN [raised |-> "TypeError", rows |-> <<>>]
        ELSE [raised |-> "none", rows |-> SelectSeq(frame.rows, Matches)]

\* the exception raised, the columns df is left with, the rows returned
factor_query_isatab(frame, query, policy) ==
    LET recast == recast_columns(frame.columns)
        columns == [i \in 1..Len(recast) |->
                        IF StartsWith(recast[i], FactorValueOpen)
                        THEN pyvar(recast[i])
                        ELSE recast[i]]
        renamed == [columns |-> columns, rows |-> frame.rows]
        qlist == Split(query, And)
        fmt == FmtQueryLoop(qlist, <<>>)
        res == DataFrameQuery(renamed, Join(And, fmt.fmt_query), policy)
    IN  IF fmt.raised # "none"
        THEN [raised |-> fmt.raised, df |-> renamed, result |-> NoResult]
        ELSE IF res.raised # "none"
        THEN [raised |-> res.raised, df |-> renamed, result |-> NoResult]
        ELSE [raised |-> "none", df |-> renamed, result |-> [rows |-> res.rows]]

\* a call with the first conjunct, or a call on the same DataFrame with
\* one more conjunct than the call before
FactorQueryIsatab(conjunct, policy) ==
    LET query == IF q = <<>> THEN conjunct ELSE q \o And \o conjunct
        r == factor_query_isatab(df, query, policy)
    IN  /\ \/ pc = "ready"
           \/ /\ pc = "done"
              /\ raised = "none"
              /\ Len(Split(q, And)) < MaxConjuncts
        /\ pc' = "done"
        /\ op' = "factor_query_isatab"
        /\ q' = query
        /\ raised' = r.raised
        /\ df' = r.df
        /\ query_result' = r.result
        /\ shorter_result' = query_result
        /\ UNCHANGED <<isatab, fixerVars, poolingVars, archiveVars, reportVars,
                       batchVars, containsVars,
                   pyvarVars, protocolsVars, loadableVars>>

QueryFactors == {<<"a"," ","b">>, <<"a","_","b">>, <<"c">>}

QueryConjuncts == {f \o EqEq \o v : f \in QueryFactors, v \in CellValues}

\* a table with a 'Material Type' column and a Factor Value column for each
\* of the given factors
QueryTables(fs) ==
    LET columns == <<MaterialType>> \o [k \in 1..Len(fs) |-> FactorLabel(fs[k])]
    IN  UNION {{[columns |-> columns,
                 rows |-> [r \in 1..n |-> <<<<"m">>>> \o cells[r]]] :
                    cells \in [1..n -> [1..Len(fs) -> CellValues]]} :
               n \in 0..MaxQueryRows}

InitQuery ==
    /\ IdleFixer
    /\ IdlePooling
    /\ IdleArchive
    /\ IdleReport
    /\ IdleBatch
    /\ IdleContains
    /\ IdlePyvar
    /\ IdleProtocols
    /\ IdleLoadable
    /\ \E n \in 1..MaxFactorColumns :
        \E fs \in [1..n -> QueryFactors] :
            /\ \A i, j \in 1..n : fs[i] = fs[j] => i = j
            /\ isatab \in QueryTables(fs)
    /\ df = isatab
    /\ q = <<>>
    /\ query_result = NoResult
    /\ shorter_result = NoResult
    /\ op = "none"
    /\ raised = "none"
    /\ pc = "ready"

NextQuery ==
    \E conjunct \in QueryConjuncts, policy \in DuplicatePolicies :
        FactorQueryIsatab(conjunct, policy)

SpecQuery == InitQuery /\ [][NextQuery]_vars

\* the [factor, value] pairs of a query 'f1 == v1 and f2 == v2 ...'
QueryPairs(query) ==
    [k \in 1..Len(Split(query, And)) |->
        [factor |-> Split(Split(query, And)[k], EqEq)[1],
         value |-> Split(Split(query, And)[k], EqEq)[2]]]

\* the row has value v in the 'Factor Value[f]' column of the table
RowHas(t, row, f, v) ==
    \E c \in 1..Len(t.columns) : t.columns[c] = FactorLabel(f) /\ row[c] = v

\* the rows of the table that satisfy every conjunct of the query
RowsSatisfying(t, query) ==
    LET pairs == QueryPairs(query)
        Sat(row) == \A k \in 1..Len(pairs) :
                        RowHas(t, row, pairs[k].factor, pairs[k].value)
    IN  SelectSeq(t.rows, Sat)

\* every factor the query names has its 'Factor Value[f]' column
FactorsPresent(t, query) ==
    \A k \in 1..Len(QueryPairs(query)) :
        FactorLabel(QueryPairs(query)[k].factor) \in Elements(t.columns)

\* C9: a call with the query 'f1 == v1 and f2 == v2 ...' over factors of the
\* table returns exactly the rows whose 'Factor Value[fi]' column equals vi
\* for every conjunct, and so a call with one more conjunct never returns
\* more rows than the call without it.
C9_RowsMatchingEveryConjunct ==
    (/\ pc = "done"
     /\ op = "factor_query_isatab"
     /\ FactorsPresent(isatab, q))
        => /\ raised = "none"
           /\ query_result = [rows |-> RowsSatisfying(isatab, q)]
           /\ shorter_result # NoResult
                => Len(query_result.rows) <= Len(shorter_result.rows)

(***************************************************************************)
(* The cells of the tables the fixer writes.                               *)
(***************************************************************************)
\* the table the call wrote with to_csv
WrittenTable ==
    IF op = "replace_factor_with_source_characteristic" THEN table ELSE fix_table

\* the label the factor column is given
NewFactorLabel ==
    IF op = "replace_factor_with_source_characteristic"
    THEN CharacteristicsLabel(call.factor_name)
    ELSE ParameterValueLabel(call.factor_name)

\* the values, row for row, under the first column of header h labelled x
ColumnUnder(h, rows, x) == [r \in 1..Len(rows) |-> rows[r][Pos(h, x)]]

\* C14: in the table a successful replace_factor_with_... call writes, the
\* column labelled 'Characteristics[F]' (resp. 'Parameter Value[F]') holds,
\* row for row, the values the 'Factor Value[F]' column held before, and
\* every other column (told by a label that occurs once before and once
\* after) holds the values it held before.
C14_CellsMoveWithHeaders ==
    (/\ pc = "done"
     /\ op \in {"replace_factor_with_source_characteristic",
                "replace_factor_with_protocol_parameter_value"}
     /\ raised = "none")
        => LET old == [header |-> clean_isatab_field_names(
                                    read_tfile_columns(call.before.header)),
                       rows |-> call.before.rows]
               new == WrittenTable
           IN  /\ NewFactorLabel \in Elements(new.header)
               /\ ColumnUnder(new.header, new.rows, NewFactorLabel)
                    = ColumnUnder(old.header, old.rows, FactorLabel(call.factor_name))
               /\ \A x \in Elements(old.header) \ {FactorLabel(call.factor_name)} :
                    (Count(old.header, x) = 1 /\ Count(new.header, x) = 1)
                        => ColumnUnder(new.header, new.rows, x)
                            = ColumnUnder(old.header, old.rows, x)

(***************************************************************************)
(* pyvar called on its own                                                 *)
(***************************************************************************)
MaxStringLen == 3

Pyvar ==
    /\ pc = "ready"
    /\ pc' = "done"
    /\ op' = "pyvar"
    /\ raised' = "none"
    /\ variable' = pyvar(input_string)
    /\ UNCHANGED <<input_string, fixerVars, poolingVars, archiveVars, reportVars,
                   batchVars, queryVars, containsVars, protocolsVars,
                   loadableVars>>

\* a letter, a digit, a space, an underscore and a hyphen
StringChars == {"a", "1", " ", "_", "-"}

InitPyvar ==
    /\ IdleFixer
    /\ IdlePooling
    /\ IdleArchive
    /\ IdleReport
    /\ IdleBatch
    /\ IdleQuery
    /\ IdleContains
    /\ IdleProtocols
    /\ IdleLoadable
    /\ \E n \in 0..MaxStringLen : input_string \in [1..n -> StringChars]
    /\ variable = <<>>
    /\ op = "none"
    /\ raised = "none"
    /\ pc = "ready"

NextPyvar == Pyvar

SpecPyvar == InitPyvar /\ [][NextPyvar]_vars

IsAlnum(ch) == ch \in AlphaChars \/ ch \in DigitChars

\* the result has the length of the argument, keeps its letters and digits
\* in place and has '_' everywhere else
ReplacedInPlace(arg, res) ==
    /\ Len(res) = Len(arg)
    /\ \A i \in 1..Len(arg) : res[i] = IF IsAlnum(arg[i]) THEN arg[i] ELSE "_"

\* C11: for every argument, pyvar returns a valid Python variable name: a
\* non-empty string that does not start with a digit, as long as the
\* argument, with the argument's letters and digits kept in place and every
\* other character replaced by '_'.
C11_ValidVariableName ==
    (pc = "done" /\ op = "pyvar")
        => /\ variable # <<>>
           /\ variable[1] \notin DigitChars
           /\ ReplacedInPlace(input_string, variable)

(***************************************************************************)
(* IsaTabFixer.remove_unused_protocols                                     *)
(***************************************************************************)
MaxProcesses == 1

\* unused_protocol_names.remove(name), the KeyError passed over
RemoveName(unused_protocol_names, name) == unused_protocol_names \ {name}

\* for process in process_sequence: ...
RECURSIVE ProcessLoop(_, _)
ProcessLoop(process_sequence, unused_protocol_names) ==
    IF process_sequence = <<>> THEN unused_protocol_names
    ELSE ProcessLoop(Tail(process_sequence),
                     RemoveName(unused_protocol_names, Head(process_sequence)))

\* for assay in study.assays: for process in assay.process_sequence: ...
RECURSIVE AssaysLoop(_, _)
AssaysLoop(assays, unused_protocol_names) ==
    IF assays = <<>> THEN unused_protocol_names
    ELSE AssaysLoop(Tail(assays),
                    ProcessLoop(Head(assays), unused_protocol_names))

\* a slip: the assays' process sequences left out
UnusedWithoutAssays(st) ==
    ProcessLoop(st.process_sequence, Elements(st.protocols))

\* unused_protocol_names when it is printed
UnusedProtocolNames(st) ==
    AssaysLoop(st.assays,
               ProcessLoop(st.process_sequence, Elements(st.protocols)))

\* for protocol in study.protocols: ... clean_protocols_list.append(protocol)
RECURSIVE CleanLoop(_, _, _)
CleanLoop(protocols, unused_protocol_names, clean_protocols_list) ==
    IF protocols = <<>> THEN clean_protocols_list
    ELSE CleanLoop(Tail(protocols), unused_protocol_names,
            IF Head(protocols) \notin unused_protocol_names
            THEN Append(clean_protocols_list, Head(protocols))
            ELSE clean_protocols_list)

\* the study after its pass of the loop over investigation.studies
CleanStudy(st) ==
    [st EXCEPT !.protocols = CleanLoop(st.protocols, UnusedProtocolNames(st), <<>>)]

remove_unused_protocols ==
    /\ pc = "ready"
    /\ pc' = "done"
    /\ op' = "remove_unused_protocols"
    /\ raised' = "none"
    /\ dumped' = [written |-> TRUE,
                  studies |-> [k \in 1..Len(investigation) |->
                                    CleanStudy(investigation[k])]]
    /\ UNCHANGED <<investigation, fixerVars, poolingVars, archiveVars, reportVars,
                   batchVars, queryVars, containsVars, pyvarVars, loadableVars>>

\* the protocols a study declares, by name
ProtocolLists == {<<ProtocolP>>, <<ProtocolP, ProtocolQ>>, <<ProtocolQ, ProtocolP>>}

\* the executed protocol names of a process sequence: p, q, or a name x
\* that no study declares
ProcessSequences ==
    UNION {[1..n -> {ProtocolP, ProtocolQ, <<"x">>}] : n \in 0..MaxProcesses}

\* a study with no assay or one assay
ProtocolStudies ==
    [protocols : ProtocolLists, process_sequence : ProcessSequences,
     assays : {<<>>} \cup {<<ps>> : ps \in ProcessSequences}]

InitProtocols ==
    /\ IdleFixer
    /\ IdlePooling
    /\ IdleArchive
    /\ IdleReport
    /\ IdleBatch
    /\ IdleQuery
    /\ IdleContains
    /\ IdlePyvar
    /\ IdleLoadable
    /\ \/ \E s1 \in ProtocolStudies : investigation = <<s1>>
       \/ \E s1 \in ProtocolStudies, s2 \in ProtocolStudies : investigation = <<s1, s2>>
    /\ dumped = NotDumped
    /\ op = "none"
    /\ raised = "none"
    /\ pc = "ready"

NextProtocols == remove_unused_protocols

SpecProtocols == InitProtocols /\ [][NextProtocols]_vars

\* the names executed by the study's processes and its assays' processes
ExecutedNames(st) ==
    Elements(st.process_sequence)
        \cup UNION {Elements(st.assays[a]) : a \in 1..Len(st.assays)}

\* l with the elements outside S taken out, the order kept
RECURSIVE Restrict(_, _)
Restrict(l, S) ==
    IF l = <<>> THEN <<>>
    ELSE (IF Head(l) \in S THEN <<Head(l)>> ELSE <<>>) \o Restrict(Tail(l), S)

\* C12: in the investigation written by remove_unused_protocols every
\* study's protocol list is its original list restricted, in the original
\* order, to the protocols whose name some process of the study's process
\* sequence or of one of its assays' process sequences executes.
C12_KeepsExactlyExecutedProtocols ==
    (pc = "done" /\ op = "remove_unused_protocols")
        => /\ dumped.written
           /\ Len(dumped.studies) = Len(investigation)
           /\ \A k \in 1..Len(investigation) :
                dumped.studies[k].protocols =
                    Restrict(investigation[k].protocols,
                             ExecutedNames(investigation[k]))

\* a study keeps a protocol that only an assay executes and loses another
C12_Witness ==
    /\ pc = "done"
    /\ op = "remove_unused_protocols"
    /\ \E k \in 1..Len(investigation) :
        /\ investigation[k].protocols = <<ProtocolP, ProtocolQ>>
        /\ investigation[k].process_sequence = <<<<"x">>>>
        /\ investigation[k].assays = <<<<ProtocolQ>>>>
        /\ dumped.studies[k].protocols = <<ProtocolQ>>

(***************************************************************************)
(* check_loadable                                                          *)
(***************************************************************************)
MaxListed == 3

MTBLS == <<"M","T","B","L","S">>
LoadOK == <<" ","l","o","a","d"," ","O","K">>
LoadFAIL ==
    <<" ","l","o","a","d"," ","F","A","I","L",","," ","r","e","a","s","o","n",":"," ">>

\* a slip: every entry of the directory, whatever its name
AllEntries(entries) == entries

\* [x for x in os.listdir(tab_dir_root) if x.startswith('MTBLS')]
MtblsDirs(entries) == SelectSeq(entries, LAMBDA x : StartsWith(x.name, MTBLS))

\* the try statement for one directory: the line it prints
TryLoad(mtbls_dir) ==
    IF mtbls_dir.loads.raised
    THEN mtbls_dir.name \o LoadFAIL \o mtbls_dir.loads.message
    ELSE mtbls_dir.name \o LoadOK

\* for mtbls_dir in [...]: the lines printed from the given ones on
RECURSIVE LoadableLoop(_, _)
LoadableLoop(mtbls_dirs, lines) ==
    IF mtbls_dirs = <<>> THEN lines
    ELSE LoadableLoop(Tail(mtbls_dirs), Append(lines, TryLoad(Head(mtbls_dirs))))

check_loadable ==
    /\ pc = "ready"
    /\ pc' = "done"
    /\ op' = "check_loadable"
    /\ raised' = "none"
    /\ printed' = LoadableLoop(MtblsDirs(listing), <<>>)
    /\ UNCHANGED <<listing, fixerVars, poolingVars, archiveVars, reportVars,
                   batchVars, queryVars, containsVars, pyvarVars, protocolsVars>>

\* names of entries of tab_dir_root
EntryNames ==
    {MTBLS \o <<"1">>, MTBLS \o <<"2">>, <<"X">> \o MTBLS, <<"m","t","b","l","s">>}

\* what isatab.load does on an entry: it returns, or raises an Exception
\* whose str is the message
LoadOutcomes ==
    {[raised |-> FALSE, message |-> <<>>],
     [raised |-> TRUE, message |-> <<"e">>],
     [raised |-> TRUE, message |-> <<>>]}

InitLoadable ==
    /\ IdleFixer
    /\ IdlePooling
    /\ IdleArchive
    /\ IdleReport
    /\ IdleBatch
    /\ IdleQuery
    /\ IdleContains
    /\ IdlePyvar
    /\ IdleProtocols
    /\ \E n \in 0..MaxListed :
        \E names \in [1..n -> EntryNames], loads \in [1..n -> LoadOutcomes] :
            /\ \A i, j \in 1..n : names[i] = names[j] => i = j
            /\ listing = [k \in 1..n |-> [name |-> names[k], loads |-> loads[k]]]
    /\ printed = <<>>
    /\ op = "none"
    /\ raised = "none"
    /\ pc = "ready"

NextLoadable == check_loadable

SpecLoadable == InitLoadable /\ [][NextLoadable]_vars

\* the positions in the listing of the entries whose name starts with 'MTBLS'
RECURSIVE MtblsPositions(_, _)
MtblsPositions(entries, i) ==
    IF i > Len(entries) THEN <<>>
    ELSE (IF SubSeq(entries[i].name, 1, 5) = MTBLS THEN <<i>> ELSE <<>>)
         \o MtblsPositions(entries, i + 1)

\* C13: check_loadable prints exactly one line for every entry of the
\* directory whose name starts with 'MTBLS', '<dir> load OK' when the load
\* returned and '<dir> load FAIL, reason: <message>' when it raised, the
\* entries after a failing one included, and no line for any other entry.
C13_OneLinePerMtblsDir ==
    (pc = "done" /\ op = "check_loadable")
        => LET at == MtblsPositions(listing, 1)
           IN  /\ raised = "none"
               /\ Len(printed) = Len(at)
               /\ \A k \in 1..Len(at) :
                    printed[k] =
                        IF listing[at[k]].loads.raised
                        THEN listing[at[k]].name \o LoadFAIL
                                \o listing[at[k]].loads.message
                        ELSE listing[at[k]].name \o LoadOK

\* a failing MTBLS directory is followed by another entry and by a loadable
\* MTBLS directory, and both directories have their line
C13_Witness ==
    /\ pc = "done"
    /\ op = "check_loadable"
    /\ Len(listing) = 3
    /\ listing[1] = [name |-> MTBLS \o <<"1">>,
                     loads |-> [raised |-> TRUE, message |-> <<"e">>]]
    /\ listing[2].name = <<"X">> \o MTBLS
    /\ listing[3] = [name |-> MTBLS \o <<"2">>,
                     loads |-> [raised |-> FALSE, message |-> <<>>]]
    /\ printed = <<MTBLS \o <<"1">> \o LoadFAIL \o <<"e">>,
                   MTBLS \o <<"2">> \o LoadOK>>

====
